---- MODULE Spec2Model ----
(***************************************************************************)
(* digitalis: the playback command actor of the music server.              *)
(*                                                                         *)
(* AudioThreadState (src/bin/digitalis-server/main.rs) owns the rodio sink *)
(* and the transport state; handle_command processes one AudioCommand to   *)
(* completion.  Position is derived from a monotonic clock (Instant), not  *)
(* from the sink.  Durations are kept in clock ticks, TicksPerMs ticks to  *)
(* the millisecond, so that Duration::as_millis truncates as in the code.  *)
(* f32 volumes are kept as integers, VolUnit standing for 1.0.             *)
(***************************************************************************)
EXTENDS Integers, Sequences, FiniteSets, TLC

VARIABLES state, now, last, reply, marks, floor, loaded, lastVol, played, run,
          thread, open, chan, reqs, arrived, naccepted, nproc, answer, procLast,
          log, walk, scanned, fs, outcome, app, key

(***************************************************************************)
(* state, now: the actor and its clock.  last .. lastVol: history of the   *)
(* commands the actor handled.  thread .. procLast: the audio thread, the  *)
(* command channel and the HTTP handlers in front of it.  walk, scanned:   *)
(* the files a library scan finds and the Library it returns.  fs,         *)
(* outcome: the files that exist and what the play handler made of the     *)
(* last request path.  app, key: the terminal client's App and the key it  *)
(* handled last.                                                           *)
(***************************************************************************)
histVars == <<last, reply, marks, floor, loaded, lastVol, played, run>>
apiVars == <<thread, open, chan, reqs, arrived, naccepted, nproc, answer, procLast,
             log>>
scanVars == <<walk, scanned, fs, outcome, app, key>>
vars == <<state, now, histVars, apiVars, scanVars>>

(***************************************************************************)
(* Bounds of the model.                                                    *)
(***************************************************************************)
MaxTime == 3
TicksPerMs == 2
VolUnit == 2
MaxSeekMs == 1
MaxRequests == 2
MaxTracks == 3
MaxFiles == 2

(***************************************************************************)
(* mpsc::channel::<AudioCommand>(32) and the status codes the handlers     *)
(* answer with.                                                            *)
(***************************************************************************)
QueueCap == 32
OK == 200
FORBIDDEN == 403
NOT_FOUND == 404
INTERNAL_SERVER_ERROR == 500
NOT_IMPLEMENTED == 501

Paths == {"a", "b"}

(***************************************************************************)
(* Option<T>: None is the empty sequence, Some(x) the one-element one.     *)
(***************************************************************************)
None == <<>>
Some(x) == <<x>>
IsSome(o) == o # <<>>
Unwrap(o) == o[1]

(***************************************************************************)
(* Track (lib.rs): identified by its path.                                 *)
(***************************************************************************)
Track(p) == [path |-> p]

(***************************************************************************)
(* The library the play handler looks the request path up in: "a" is a     *)
(* scanned track, "b" a file under the music root that the scan skipped.   *)
(***************************************************************************)
Catalog == {"a"}
lookup(path) == IF path \in Catalog THEN Some(Track(path)) ELSE None

(***************************************************************************)
(* The rodio Sink as the actor uses it: a paused flag, the queue of        *)
(* appended sources and the applied volume.  A new sink is un-paused and   *)
(* empty; stop() empties the queue and leaves the paused flag alone.       *)
(***************************************************************************)
SinkNew == [paused |-> FALSE, queue |-> <<>>, volume |-> VolUnit]
SinkStop(s) == [s EXCEPT !.queue = <<>>]
SinkAppend(s, source) == [s EXCEPT !.queue = Append(@, source)]
SinkPlay(s) == [s EXCEPT !.paused = FALSE]
SinkPause(s) == [s EXCEPT !.paused = TRUE]
SinkSetVolume(s, v) == [s EXCEPT !.volume = v]
SinkIsPaused(s) == s.paused

(***************************************************************************)
(* Duration::as_millis: whole milliseconds, truncating.                    *)
(***************************************************************************)
as_millis(d) == d \div TicksPerMs

(***************************************************************************)
(* AudioThreadState::new                                                   *)
(***************************************************************************)
New ==
    [sink |-> Some(SinkSetVolume(SinkNew, VolUnit)),
     current_track |-> None,
     start_time |-> None,
     pause_offset |-> 0,
     volume |-> VolUnit]

(***************************************************************************)
(* Instant::elapsed at clock reading t.                                    *)
(***************************************************************************)
elapsed(start, t) == t - start

(***************************************************************************)
(* A position that converts the running time and the base to milliseconds  *)
(* separately before adding them.                                          *)
(***************************************************************************)
position_truncates_each(s, t) ==
    IF IsSome(s.start_time)
    THEN as_millis(elapsed(Unwrap(s.start_time), t)) + as_millis(s.pause_offset)
    ELSE as_millis(s.pause_offset)

(***************************************************************************)
(* AudioThreadState::position                                              *)
(***************************************************************************)
position(s, t) ==
    IF IsSome(s.start_time)
    THEN as_millis(elapsed(Unwrap(s.start_time), t) + s.pause_offset)
    ELSE as_millis(s.pause_offset)

(***************************************************************************)
(* AudioThreadState::is_playing                                            *)
(***************************************************************************)
is_playing(s) ==
    IF IsSome(s.sink) THEN ~SinkIsPaused(Unwrap(s.sink)) ELSE FALSE

(***************************************************************************)
(* A clamp that forgets the upper limit.                                   *)
(***************************************************************************)
clamp_lower_only(v, lo, hi) == IF v < lo THEN lo ELSE v

(***************************************************************************)
(* f32::clamp on the values a JSON body can carry (never NaN).             *)
(***************************************************************************)
clamp(v, lo, hi) == IF v < lo THEN lo ELSE IF v > hi THEN hi ELSE v

(***************************************************************************)
(* A Play that empties the sink before it knows the file decodes.          *)
(***************************************************************************)
Play_stops_first(s, path, track, opens, decodes, t) ==
    IF opens /\ IsSome(s.sink)
    THEN LET stopped == [s EXCEPT !.sink = Some(SinkStop(Unwrap(@)))]
         IN  IF decodes
             THEN [stopped EXCEPT
                     !.sink = Some(SinkPlay(SinkAppend(Unwrap(@), path))),
                     !.current_track = track,
                     !.start_time = Some(t),
                     !.pause_offset = 0]
             ELSE stopped
    ELSE s

(***************************************************************************)
(* A Play that appends without stopping the sink and keeps pause_offset.   *)
(***************************************************************************)
Play_appends(s, path, track, opens, decodes, t) ==
    IF opens /\ decodes /\ IsSome(s.sink)
    THEN [s EXCEPT
            !.sink = Some(SinkPlay(SinkAppend(Unwrap(@), path))),
            !.current_track = track,
            !.start_time = Some(t)]
    ELSE s

(***************************************************************************)
(* handle_command, AudioCommand::Play: opens says whether File::open       *)
(* succeeds, decodes whether Decoder::new does.                            *)
(***************************************************************************)
Play(s, path, track, opens, decodes, t) ==
    IF opens
    THEN IF decodes
         THEN IF IsSome(s.sink)
              THEN [s EXCEPT
                      !.sink = Some(SinkPlay(SinkAppend(SinkStop(Unwrap(@)), path))),
                      !.current_track = track,
                      !.start_time = Some(t),
                      !.pause_offset = 0]
              ELSE s
         ELSE s
    ELSE s

(***************************************************************************)
(* A Pause that does not add the elapsed time to pause_offset.             *)
(***************************************************************************)
Pause_forgets_elapsed(s, t) ==
    IF IsSome(s.sink) /\ is_playing(s)
    THEN [s EXCEPT
            !.sink = Some(SinkPause(Unwrap(@))),
            !.start_time = None]
    ELSE s

(***************************************************************************)
(* A Pause that leaves start_time set.                                     *)
(***************************************************************************)
Pause_keeps_clock(s, t) ==
    IF IsSome(s.sink) /\ is_playing(s)
    THEN [s EXCEPT
            !.sink = Some(SinkPause(Unwrap(@))),
            !.pause_offset =
                IF IsSome(s.start_time)
                THEN @ + elapsed(Unwrap(s.start_time), t)
                ELSE @]
    ELSE s

(***************************************************************************)
(* handle_command, AudioCommand::Pause                                     *)
(***************************************************************************)
Pause(s, t) ==
    IF IsSome(s.sink)
    THEN IF is_playing(s)
         THEN [s EXCEPT
                 !.sink = Some(SinkPause(Unwrap(@))),
                 !.pause_offset =
                     IF IsSome(s.start_time)
                     THEN @ + elapsed(Unwrap(s.start_time), t)
                     ELSE @,
                 !.start_time = None]
         ELSE s
    ELSE s

(***************************************************************************)
(* A Resume that restarts the clock without un-pausing the sink.           *)
(***************************************************************************)
Resume_keeps_paused(s, t) ==
    IF IsSome(s.sink)
    THEN [s EXCEPT !.start_time = Some(t)]
    ELSE s

(***************************************************************************)
(* A Resume that starts counting from zero again.                          *)
(***************************************************************************)
Resume_resets_offset(s, t) ==
    IF IsSome(s.sink)
    THEN [s EXCEPT
            !.sink = Some(SinkPlay(Unwrap(@))),
            !.start_time = Some(t),
            !.pause_offset = 0]
    ELSE s

(***************************************************************************)
(* handle_command, AudioCommand::Resume                                    *)
(***************************************************************************)
Resume(s, t) ==
    IF IsSome(s.sink)
    THEN [s EXCEPT
            !.sink = Some(SinkPlay(Unwrap(@))),
            !.start_time = Some(t)]
    ELSE s

(***************************************************************************)
(* A Stop that does not reset pause_offset.                                *)
(***************************************************************************)
Stop_keeps_offset(s) ==
    IF IsSome(s.sink)
    THEN [s EXCEPT
            !.sink = Some(SinkStop(Unwrap(@))),
            !.current_track = None,
            !.start_time = None]
    ELSE s

(***************************************************************************)
(* handle_command, AudioCommand::Stop                                      *)
(***************************************************************************)
Stop(s) ==
    IF IsSome(s.sink)
    THEN [s EXCEPT
            !.sink = Some(SinkStop(Unwrap(@))),
            !.current_track = None,
            !.start_time = None,
            !.pause_offset = 0]
    ELSE s

(***************************************************************************)
(* A Seek that moves pause_offset to the requested position.               *)
(***************************************************************************)
Seek_repositions(s, position_ms) ==
    [s EXCEPT !.pause_offset = position_ms * TicksPerMs]

(***************************************************************************)
(* handle_command, AudioCommand::Seek: only a warning is logged.           *)
(***************************************************************************)
Seek(s, position_ms) == s

(***************************************************************************)
(* A SetVolume that applies the clamped value but stores the raw one.      *)
(***************************************************************************)
SetVolume_stores_raw(s, vol) ==
    IF IsSome(s.sink)
    THEN [s EXCEPT
            !.sink = Some(SinkSetVolume(Unwrap(@), clamp(vol, 0, VolUnit))),
            !.volume = vol]
    ELSE s

(***************************************************************************)
(* handle_command, AudioCommand::SetVolume                                 *)
(***************************************************************************)
SetVolume(s, vol) ==
    IF IsSome(s.sink)
    THEN LET volume == clamp(vol, 0, VolUnit)
         IN  [s EXCEPT
                !.sink = Some(SinkSetVolume(Unwrap(@), volume)),
                !.volume = volume]
    ELSE s

(***************************************************************************)
(* A GetStatus that looks the current track up in the library again        *)
(* instead of reporting the value it holds.                                *)
(***************************************************************************)
GetStatus_rescans(s, t) ==
    [playing |-> is_playing(s),
     track |-> IF IsSome(s.current_track)
               THEN lookup(Unwrap(s.current_track).path)
               ELSE None,
     position_ms |-> position(s, t),
     duration_ms |-> None,
     volume |-> s.volume]

(***************************************************************************)
(* handle_command, AudioCommand::GetStatus: the PlaybackStatus sent on the *)
(* one-shot reply channel.                                                 *)
(***************************************************************************)
GetStatus(s, t) ==
    [playing |-> is_playing(s),
     track |-> s.current_track,
     position_ms |-> position(s, t),
     duration_ms |-> None,
     volume |-> s.volume]

(***************************************************************************)
(* AudioCommand values.  Every command carries the same fields; the ones   *)
(* its variant does not have are left at a default.                        *)
(***************************************************************************)
Command(kind, path, track, opens, decodes, arg) ==
    [kind |-> kind, path |-> path, track |-> track,
     opens |-> opens, decodes |-> decodes, arg |-> arg]
PlayCmd(path, track, opens, decodes) ==
    Command("Play", Some(path), track, opens, decodes, 0)
PauseCmd == Command("Pause", None, None, TRUE, TRUE, 0)
ResumeCmd == Command("Resume", None, None, TRUE, TRUE, 0)
StopCmd == Command("Stop", None, None, TRUE, TRUE, 0)
SeekCmd(ms) == Command("Seek", None, None, TRUE, TRUE, ms)
SetVolumeCmd(v) == Command("SetVolume", None, None, TRUE, TRUE, v)
GetStatusCmd == Command("GetStatus", None, None, TRUE, TRUE, 0)

(***************************************************************************)
(* A handle_command whose GetStatus folds the elapsed time into            *)
(* pause_offset and restarts the clock.                                    *)
(***************************************************************************)
handle_command_rebasing(s, cmd, t) ==
    CASE cmd.kind = "Play" ->
           [state |-> Play(s, Unwrap(cmd.path), cmd.track, cmd.opens, cmd.decodes, t),
            reply |-> None]
      [] cmd.kind = "Pause" -> [state |-> Pause(s, t), reply |-> None]
      [] cmd.kind = "Resume" -> [state |-> Resume(s, t), reply |-> None]
      [] cmd.kind = "Stop" -> [state |-> Stop(s), reply |-> None]
      [] cmd.kind = "Seek" -> [state |-> Seek(s, cmd.arg), reply |-> None]
      [] cmd.kind = "SetVolume" -> [state |-> SetVolume(s, cmd.arg), reply |-> None]
      [] cmd.kind = "GetStatus" ->
           [state |->
              IF IsSome(s.start_time)
              THEN [s EXCEPT
                      !.pause_offset = @ + elapsed(Unwrap(s.start_time), t),
                      !.start_time = Some(t)]
              ELSE s,
            reply |-> Some(GetStatus(s, t))]

(***************************************************************************)
(* handle_command: the state after the command and the reply sent, if any. *)
(***************************************************************************)
handle_command(s, cmd, t) ==
    CASE cmd.kind = "Play" ->
           [state |-> Play(s, Unwrap(cmd.path), cmd.track, cmd.opens, cmd.decodes, t),
            reply |-> None]
      [] cmd.kind = "Pause" -> [state |-> Pause(s, t), reply |-> None]
      [] cmd.kind = "Resume" -> [state |-> Resume(s, t), reply |-> None]
      [] cmd.kind = "Stop" -> [state |-> Stop(s), reply |-> None]
      [] cmd.kind = "Seek" -> [state |-> Seek(s, cmd.arg), reply |-> None]
      [] cmd.kind = "SetVolume" -> [state |-> SetVolume(s, cmd.arg), reply |-> None]
      [] cmd.kind = "GetStatus" -> [state |-> s, reply |-> Some(GetStatus(s, t))]

(***************************************************************************)
(* A Play that opened and decoded: the only Play that changes the state.   *)
(***************************************************************************)
Succeeds(cmd) == cmd.kind = "Play" /\ cmd.opens /\ cmd.decodes

(***************************************************************************)
(* Whether two actor states differ in nothing but the volume (the stored   *)
(* one and the one applied to the sink).                                   *)
(***************************************************************************)
SameButVolume(s1, s2) ==
    /\ s1.current_track = s2.current_track
    /\ s1.start_time = s2.start_time
    /\ s1.pause_offset = s2.pause_offset
    /\ IsSome(s1.sink) = IsSome(s2.sink)
    /\ IsSome(s1.sink) =>
         /\ Unwrap(s1.sink).paused = Unwrap(s2.sink).paused
         /\ Unwrap(s1.sink).queue = Unwrap(s2.sink).queue

(***************************************************************************)
(* History kept for stating the properties; the program does not read it.  *)
(*   last    the command just processed, while no time has passed since:   *)
(*           its variant and arguments, the status a GetStatus would have  *)
(*           returned immediately before it, whether start_time was set    *)
(*           before it, what it changed, the reply it                      *)
(*           sent and the history below as it was before it.  NoCommand    *)
(*           at startup and once the clock or the sink has moved on        *)
(*   reply   the reply of the command processed last, if a GetStatus       *)
(*   marks   the positions read immediately before the Pause commands      *)
(*           processed since the last Resume, successful Play or Stop,     *)
(*           each with whether the clock has advanced since                *)
(*   floor   position_ms of the latest GetStatus since the last successful *)
(*           Play (None after a Stop)                                      *)
(*   loaded  a successful Play was processed and no Stop since             *)
(*   lastVol the argument of the SetVolume processed last                  *)
(*   played  the track value of the latest successful Play (None before    *)
(*           the first one and after a Stop)                               *)
(*   run     since the latest successful Play, while every Pause came when *)
(*           un-paused and every Resume when paused: the clock ticks spent *)
(*           un-paused and whether a Pause came last; None otherwise       *)
(***************************************************************************)
NoCommand ==
    [cmd |-> "none", ok |-> FALSE, opens |-> FALSE, arg |-> 0,
     path |-> None, track |-> None,
     before |-> GetStatus(New, 0), started |-> FALSE,
     unchanged |-> TRUE, sameButVolume |-> TRUE,
     status |-> None, prevStatus |-> None, marks |-> {}, floor |-> None,
     idle |-> TRUE]

(***************************************************************************)
(* impl Default for PlaybackStatus, which get_status also spells out.       *)
(***************************************************************************)
DefaultStatus ==
    [playing |-> FALSE,
     track |-> None,
     position_ms |-> 0,
     duration_ms |-> None,
     volume |-> VolUnit]

(***************************************************************************)
(* A handler invocation (one HTTP request):                                *)
(*   pc    "idle" before it arrives, "sending" in audio_tx.send(..).await, *)
(*         "awaiting" in rx.await (get_status), then "done", or            *)
(*         "cancelled" when the connection goes away and the handler's     *)
(*         future is dropped                                               *)
(*   slot  the one-shot reply channel of a get_status: "pending", "value"  *)
(*         with the status sent, or "dropped" when the sender went away    *)
(*   after for a get_status: the handler and the status code of the        *)
(*         response given last before this request arrived                 *)
(* A finished invocation keeps only its pc; what it answered is in answer. *)
(***************************************************************************)
NoCmd == Command("none", None, None, TRUE, TRUE, 0)
NoSlot == [st |-> "pending", val |-> DefaultStatus]
NoSeen == [kind |-> "none", code |-> 0]
Request(pc, kind, cmd) ==
    [pc |-> pc, kind |-> kind, cmd |-> cmd, slot |-> NoSlot, after |-> NoSeen]
IdleRequest == Request("idle", "none", NoCmd)
DoneRequest == Request("done", "none", NoCmd)
CancelledRequest == Request("cancelled", "none", NoCmd)

(***************************************************************************)
(* History of the handlers and of the receive loop:                        *)
(*   answer    the response given last: the handler, the status code,      *)
(*             whether its command was enqueued, the body of a status      *)
(*             response, what the one-shot channel delivered and, for a    *)
(*             status response, the after of its request                   *)
(*   procLast  the command the actor handled last: its variant, whether a  *)
(*             Play succeeded, the ticket it got when it was enqueued, the *)
(*             status code its handler answered on enqueuing it (0 for a   *)
(*             get_status, which answers later), its rank among the        *)
(*             handled commands, and whether its reply had no receiver     *)
(*   naccepted, nproc  the number of commands enqueued and handled         *)
(*   log       where it is kept (LoggedActorStep): the commands handled so *)
(*             far, in the order handled, each with the request it came    *)
(*             from, its ticket and the reply sent                         *)
(***************************************************************************)
NoAnswer ==
    [kind |-> "none", code |-> 0, sent |-> FALSE, body |-> None, recv |-> None,
     after |-> NoSeen]
NoProcessed ==
    [kind |-> "none", ok |-> FALSE, ticket |-> 0, answered |-> 0, nth |-> 0,
     replyLost |-> FALSE]

ActorInit ==
    /\ state = New
    /\ now = 0
    /\ last = NoCommand
    /\ reply = None
    /\ marks = {}
    /\ floor = None
    /\ loaded = FALSE
    /\ lastVol = None
    /\ played = None
    /\ run = None

ApiStart(t) ==
    /\ thread = t
    /\ open = TRUE
    /\ chan = <<>>
    /\ reqs = [i \in 1..MaxRequests |-> IdleRequest]
    /\ arrived = 0
    /\ naccepted = 0
    /\ nproc = 0
    /\ answer = NoAnswer
    /\ procLast = NoProcessed
    /\ log = <<>>

(***************************************************************************)
(* No library scan is under way or of interest.                            *)
(***************************************************************************)
NoOutcome ==
    [kind |-> "none", request |-> <<>>, canon |-> "none", code |-> 0,
     cmd |-> None, file |-> <<>>]

(***************************************************************************)
(* App::new: empty lists, every selection at 0, the artists panel active,  *)
(* the initial load still to come.                                         *)
(***************************************************************************)
NewApp ==
    [artists |-> <<>>, albums |-> <<>>, tracks |-> <<>>,
     selected_artist |-> 0, selected_album |-> 0, selected_track |-> 0,
     active_panel |-> "Artists", loading |-> TRUE]

NoClient == fs = {} /\ outcome = NoOutcome /\ app = NewApp /\ key = "none"

NoScan == walk = <<>> /\ scanned = None /\ NoClient

(***************************************************************************)
(* The actor on its own: the audio thread is in its receive loop and the   *)
(* commands are handed to it directly.                                     *)
(***************************************************************************)
Init == ActorInit /\ ApiStart("running") /\ NoScan

(***************************************************************************)
(* One iteration of the receive loop of spawn_audio_thread: the command is *)
(* handled to completion at clock reading now.                             *)
(***************************************************************************)
Step(cmd) ==
    LET r == handle_command(state, cmd, now)
        before == GetStatus(state, now)
    IN  /\ state' = r.state
        /\ now' = now
        /\ last' =
             [cmd |-> cmd.kind, ok |-> Succeeds(cmd), opens |-> cmd.opens,
              arg |-> cmd.arg,
              path |-> cmd.path, track |-> cmd.track,
              before |-> before, started |-> IsSome(state.start_time),
              unchanged |-> (r.state = state),
              sameButVolume |-> SameButVolume(r.state, state),
              status |-> r.reply,
              prevStatus |-> IF cmd.kind = "GetStatus" THEN reply ELSE None,
              marks |-> IF cmd.kind = "Resume" THEN marks ELSE {},
              floor |-> IF cmd.kind = "GetStatus" THEN floor ELSE None,
              idle |-> ~loaded]
        /\ reply' = r.reply
        /\ marks' =
             CASE cmd.kind = "Pause" ->
                    IF \E m \in marks : m.pos = before.position_ms
                    THEN marks
                    ELSE marks \cup {[pos |-> before.position_ms, waited |-> FALSE]}
               [] cmd.kind \in {"Resume", "Stop"} -> {}
               [] Succeeds(cmd) -> {}
               [] OTHER -> marks
        /\ floor' =
             CASE cmd.kind = "GetStatus" /\ loaded ->
                    Some(Unwrap(r.reply).position_ms)
               [] cmd.kind = "Stop" -> None
               [] Succeeds(cmd) -> None
               [] OTHER -> floor
        /\ loaded' =
             CASE cmd.kind = "Stop" -> FALSE
               [] Succeeds(cmd) -> TRUE
               [] OTHER -> loaded
        /\ lastVol' = IF cmd.kind = "SetVolume" THEN Some(cmd.arg) ELSE lastVol
        /\ played' =
             CASE cmd.kind = "Stop" -> None
               [] Succeeds(cmd) -> Some(cmd.track)
               [] OTHER -> played
        /\ run' =
             CASE cmd.kind = "Stop" -> None
               [] Succeeds(cmd) -> Some([ticks |-> 0, paused |-> FALSE])
               [] cmd.kind = "Pause" /\ IsSome(run) ->
                    IF Unwrap(run).paused
                    THEN None
                    ELSE Some([Unwrap(run) EXCEPT !.paused = TRUE])
               [] cmd.kind = "Resume" /\ IsSome(run) ->
                    IF Unwrap(run).paused
                    THEN Some([Unwrap(run) EXCEPT !.paused = FALSE])
                    ELSE None
               [] OTHER -> run
        /\ UNCHANGED <<apiVars, scanVars>>

DoPlay ==
    \E path \in Paths, found \in BOOLEAN, opens \in BOOLEAN, decodes \in BOOLEAN :
        Step(PlayCmd(path, IF found THEN Some(Track(path)) ELSE None,
                     opens, opens /\ decodes))
DoPause == Step(PauseCmd)
DoResume == Step(ResumeCmd)
DoStop == Step(StopCmd)
DoSeek == \E ms \in 0..MaxSeekMs : Step(SeekCmd(ms))
DoSetVolume == \E v \in {0 - 1, 1, VolUnit + 1} : Step(SetVolumeCmd(v))
DoGetStatus == Step(GetStatusCmd)

(***************************************************************************)
(* The monotonic clock advances between commands.                          *)
(***************************************************************************)
Tick ==
    /\ now < MaxTime
    /\ now' = now + 1
    /\ last' = NoCommand
    /\ marks' = {[m EXCEPT !.waited = TRUE] : m \in marks}
    /\ run' = IF IsSome(run) /\ ~Unwrap(run).paused
              THEN Some([Unwrap(run) EXCEPT !.ticks = @ + 1])
              ELSE run
    /\ UNCHANGED <<state, reply, floor, loaded, lastVol, played>>
    /\ UNCHANGED <<apiVars, scanVars>>

(***************************************************************************)
(* The output stream plays the front source of an un-paused sink to its    *)
(* end; the sink then drops it.                                            *)
(***************************************************************************)
SourceEnds ==
    /\ IsSome(state.sink)
    /\ ~SinkIsPaused(Unwrap(state.sink))
    /\ Unwrap(state.sink).queue # <<>>
    /\ state' = [state EXCEPT !.sink = Some([Unwrap(@) EXCEPT !.queue = Tail(@)])]
    /\ last' = NoCommand
    /\ UNCHANGED <<now, reply, marks, floor, loaded, lastVol, played, run>>
    /\ UNCHANGED <<apiVars, scanVars>>

Next ==
    \/ DoPlay
    \/ DoPause
    \/ DoResume
    \/ DoStop
    \/ DoSeek
    \/ DoSetVolume
    \/ DoGetStatus
    \/ Tick
    \/ SourceEnds

Spec == Init /\ [][Next]_vars

(***************************************************************************)
(* The server as a whole: the audio thread started by spawn_audio_thread,  *)
(* the bounded command channel and the HTTP handlers of routes/mod.rs.     *)
(***************************************************************************)

(***************************************************************************)
(* The handlers, as functions of what they observe.  canon is the outcome  *)
(* of joining the request path to the music root and canonicalizing it     *)
(* ("err", "outside" the root, "inside" it); sent is whether               *)
(* audio_tx.send(..).await returned Ok; recv is what rx.await returned     *)
(* (Some(status) for Ok, None for Err).                                    *)
(***************************************************************************)
play(canon, sent) ==
    IF canon = "err" THEN NOT_FOUND
    ELSE IF canon = "outside" THEN FORBIDDEN
    ELSE IF sent THEN OK ELSE INTERNAL_SERVER_ERROR

pause_answers_ok(sent) == OK

pause(sent) == IF sent THEN OK ELSE INTERNAL_SERVER_ERROR

resume(sent) == IF sent THEN OK ELSE INTERNAL_SERVER_ERROR

stop_ignores_send(sent) == OK

stop(sent) == IF sent THEN OK ELSE INTERNAL_SERVER_ERROR

seek_answers_ok(sent) == IF sent THEN OK ELSE INTERNAL_SERVER_ERROR

seek(sent) == IF sent THEN NOT_IMPLEMENTED ELSE INTERNAL_SERVER_ERROR

set_volume_ignores_send(sent) == OK

set_volume(sent) == IF sent THEN OK ELSE INTERNAL_SERVER_ERROR

get_status_ignores_reply(sent, recv) == DefaultStatus

get_status(sent, recv) ==
    IF sent
    THEN IF IsSome(recv) THEN Unwrap(recv) ELSE DefaultStatus
    ELSE DefaultStatus

(***************************************************************************)
(* The status code of a handler that got as far as sending its command.    *)
(***************************************************************************)
StatusCode(kind, sent) ==
    CASE kind = "play" -> play("inside", sent)
      [] kind = "pause" -> pause(sent)
      [] kind = "resume" -> resume(sent)
      [] kind = "stop" -> stop(sent)
      [] kind = "seek" -> seek(sent)
      [] kind = "volume" -> set_volume(sent)
      [] kind = "status" -> OK

Answer(kind, code, sent, recv) ==
    [kind |-> kind, code |-> code, sent |-> sent,
     body |-> IF kind = "status" THEN Some(get_status(sent, recv)) ELSE None,
     recv |-> recv,
     after |-> NoSeen]

(***************************************************************************)
(* tokio mpsc: the receiver takes the oldest message.                      *)
(***************************************************************************)
Recv_newest_first(q) ==
    [msg |-> q[Len(q)], rest |-> SubSeq(q, 1, Len(q) - 1)]

(***************************************************************************)
(* A receiver that takes a queued GetStatus ahead of the other commands.   *)
(***************************************************************************)
Recv_status_first(q) ==
    IF \E k \in 1..Len(q) : q[k].cmd.kind = "GetStatus"
    THEN LET k == CHOOSE k \in 1..Len(q) :
                    /\ q[k].cmd.kind = "GetStatus"
                    /\ \A j \in 1..(k - 1) : q[j].cmd.kind # "GetStatus"
         IN  [msg |-> q[k],
              rest |-> SubSeq(q, 1, k - 1) \o SubSeq(q, k + 1, Len(q))]
    ELSE [msg |-> Head(q), rest |-> Tail(q)]

Recv(q) == [msg |-> Head(q), rest |-> Tail(q)]

(***************************************************************************)
(* Dropping the receiver drops the queued commands, and with a queued      *)
(* GetStatus the sender of its one-shot reply channel.                     *)
(***************************************************************************)
DropQueued(q, rs) ==
    [i \in DOMAIN rs |->
        IF \E k \in 1..Len(q) : q[k].req = i /\ q[k].cmd.kind = "GetStatus"
        THEN [rs[i] EXCEPT !.slot = [st |-> "dropped", val |-> DefaultStatus]]
        ELSE rs[i]]

(***************************************************************************)
(* The receive loop after a command: handle_command returns nothing and    *)
(* the result of tx.send(status) is discarded, so the loop goes on.        *)
(***************************************************************************)
AfterCommand_unwraps_send(cmd, delivered) ==
    IF cmd.kind = "GetStatus" /\ ~delivered THEN "exited" ELSE "running"

AfterCommand(cmd, delivered) == "running"

ApiInit == ActorInit /\ ApiStart("init") /\ NoScan

(***************************************************************************)
(* A request arrives and its handler runs up to its send.                  *)
(***************************************************************************)
Accept(i, kind, cmd) ==
    /\ reqs' = [reqs EXCEPT ![i] =
                 [Request("sending", kind, cmd) EXCEPT
                    !.after = IF kind = "status"
                              THEN [kind |-> answer.kind, code |-> answer.code]
                              ELSE NoSeen]]
    /\ arrived' = i
    /\ UNCHANGED <<state, now, histVars, scanVars, log, thread, open, chan, naccepted, nproc,
                   answer, procLast>>

Reject(i, kind, code) ==
    /\ reqs' = [reqs EXCEPT ![i] = DoneRequest]
    /\ arrived' = i
    /\ answer' = Answer(kind, code, FALSE, None)
    /\ UNCHANGED <<state, now, histVars, scanVars, log, thread, open, chan, naccepted, nproc,
                   procLast>>

Arrives(i) == open /\ i = arrived + 1 /\ i <= MaxRequests

HttpPlay ==
    \E i \in 1..MaxRequests, path \in Paths, canon \in {"err", "outside", "inside"} :
        /\ Arrives(i)
        /\ IF canon = "inside"
           THEN Accept(i, "play", PlayCmd(path, lookup(path), TRUE, TRUE))
           ELSE Reject(i, "play", play(canon, FALSE))

HttpPause == \E i \in 1..MaxRequests : Arrives(i) /\ Accept(i, "pause", PauseCmd)
HttpResume == \E i \in 1..MaxRequests : Arrives(i) /\ Accept(i, "resume", ResumeCmd)
HttpStop == \E i \in 1..MaxRequests : Arrives(i) /\ Accept(i, "stop", StopCmd)
HttpSeek ==
    \E i \in 1..MaxRequests, ms \in {MaxSeekMs} :
        Arrives(i) /\ Accept(i, "seek", SeekCmd(ms))
HttpSetVolume ==
    \E i \in 1..MaxRequests, v \in {0 - 1, VolUnit + 1} :
        Arrives(i) /\ Accept(i, "volume", SetVolumeCmd(v))
HttpGetStatus ==
    \E i \in 1..MaxRequests : Arrives(i) /\ Accept(i, "status", GetStatusCmd)

(***************************************************************************)
(* tokio mpsc: a sent message goes behind the ones already queued.         *)
(***************************************************************************)
Enqueue_at_front(q, e) == <<e>> \o q

Enqueue(q, e) == Append(q, e)

(***************************************************************************)
(* audio_tx.send(cmd).await: Err once the receiver is gone, otherwise the  *)
(* command is enqueued as soon as the channel has room.  Every handler but *)
(* get_status answers right after it.                                      *)
(***************************************************************************)
Closed == thread \in {"failed", "exited"}

Send(i) ==
    /\ reqs[i].pc = "sending"
    /\ IF Closed
       THEN /\ reqs' = [reqs EXCEPT ![i] = DoneRequest]
            /\ answer' = [Answer(reqs[i].kind, StatusCode(reqs[i].kind, FALSE),
                                 FALSE, None)
                             EXCEPT !.after = reqs[i].after]
            /\ UNCHANGED <<chan, naccepted>>
       ELSE /\ Len(chan) < QueueCap
            /\ chan' = Enqueue(chan,
                 [cmd |-> reqs[i].cmd, req |-> i, ticket |-> naccepted + 1,
                  answered |-> IF reqs[i].kind = "status" THEN 0
                               ELSE StatusCode(reqs[i].kind, TRUE)])
            /\ naccepted' = naccepted + 1
            /\ IF reqs[i].kind = "status"
               THEN /\ reqs' = [reqs EXCEPT ![i].pc = "awaiting"]
                    /\ UNCHANGED answer
               ELSE /\ reqs' = [reqs EXCEPT ![i] = DoneRequest]
                    /\ answer' = Answer(reqs[i].kind,
                                        StatusCode(reqs[i].kind, TRUE), TRUE, None)
    /\ UNCHANGED <<state, now, histVars, scanVars, log, thread, open, arrived, nproc, procLast>>

(***************************************************************************)
(* get_status: rx.await returns once the actor has replied or the sender   *)
(* of the one-shot channel is gone.                                        *)
(***************************************************************************)
Receive(i) ==
    /\ reqs[i].pc = "awaiting"
    /\ reqs[i].slot.st # "pending"
    /\ LET recv == IF reqs[i].slot.st = "value"
                   THEN Some(reqs[i].slot.val) ELSE None
       IN  answer' = [Answer("status", StatusCode("status", TRUE), TRUE, recv)
                        EXCEPT !.after = reqs[i].after]
    /\ reqs' = [reqs EXCEPT ![i] = DoneRequest]
    /\ UNCHANGED <<state, now, histVars, scanVars, log, thread, open, chan, arrived, naccepted,
                   nproc, procLast>>

(***************************************************************************)
(* The client goes away while its handler is suspended: the handler's      *)
(* future is dropped, and with it the receiver of its one-shot channel.    *)
(***************************************************************************)
Cancel(i) ==
    /\ reqs[i].pc \in {"sending", "awaiting"}
    /\ reqs' = [reqs EXCEPT ![i] = CancelledRequest]
    /\ UNCHANGED <<state, now, histVars, scanVars, log, thread, open, chan, arrived, naccepted,
                   nproc, answer, procLast>>

(***************************************************************************)
(* spawn_audio_thread: AudioThreadState::new succeeds and the thread       *)
(* enters its receive loop, or fails and the thread returns, which drops   *)
(* the receiver.                                                           *)
(***************************************************************************)
ThreadInitOk ==
    /\ thread = "init"
    /\ thread' = "running"
    /\ state' = New
    /\ UNCHANGED <<now, histVars, scanVars, log, open, chan, reqs, arrived, naccepted, nproc,
                   answer, procLast>>

ThreadInitFails ==
    /\ thread = "init"
    /\ thread' = "failed"
    /\ chan' = <<>>
    /\ reqs' = DropQueued(chan, reqs)
    /\ UNCHANGED <<state, now, histVars, scanVars, log, open, arrived, naccepted, nproc,
                   answer, procLast>>

(***************************************************************************)
(* One iteration of the receive loop: the oldest command is taken and      *)
(* handled to completion; whether the file of a Play opens and decodes     *)
(* is decided now.                                                         *)
(***************************************************************************)
ActorStepWith(logging) ==
    /\ thread = "running"
    /\ chan # <<>>
    /\ \E opens \in BOOLEAN, decodes \in BOOLEAN :
         LET e == Recv(chan).msg
             cmd == IF e.cmd.kind = "Play"
                    THEN [e.cmd EXCEPT !.opens = opens, !.decodes = opens /\ decodes]
                    ELSE e.cmd
             r == handle_command(state, cmd, now)
             delivered == IsSome(r.reply) /\ reqs[e.req].pc = "awaiting"
         IN  /\ state' = r.state
             /\ chan' = Recv(chan).rest
             /\ reqs' = IF delivered
                        THEN [reqs EXCEPT ![e.req].slot =
                                 [st |-> "value", val |-> Unwrap(r.reply)]]
                        ELSE reqs
             /\ thread' = AfterCommand(cmd, delivered)
             /\ nproc' = nproc + 1
             /\ procLast' =
                  [kind |-> cmd.kind, ok |-> Succeeds(cmd), ticket |-> e.ticket,
                   answered |-> e.answered, nth |-> nproc + 1,
                   replyLost |-> IsSome(r.reply) /\ ~delivered]
             /\ log' = IF logging
                        THEN Append(log, [req |-> e.req, cmd |-> cmd,
                                          ticket |-> e.ticket, reply |-> r.reply])
                        ELSE log
    /\ UNCHANGED <<now, histVars, scanVars, open, arrived, naccepted, answer>>

ActorStep == ActorStepWith(FALSE)
LoggedActorStep == ActorStepWith(TRUE)

(***************************************************************************)
(* The server stops serving: with no handler left, every sender is         *)
(* dropped; blocking_recv then returns None once the queue is empty and    *)
(* the thread ends.                                                        *)
(***************************************************************************)
Shutdown ==
    /\ open
    /\ \A i \in 1..MaxRequests : reqs[i].pc \notin {"sending", "awaiting"}
    /\ open' = FALSE
    /\ UNCHANGED <<state, now, histVars, scanVars, log, thread, chan, reqs, arrived, naccepted,
                   nproc, answer, procLast>>

ThreadExit ==
    /\ thread = "running"
    /\ ~open
    /\ chan = <<>>
    /\ thread' = "exited"
    /\ UNCHANGED <<state, now, histVars, scanVars, log, open, chan, reqs, arrived, naccepted,
                   nproc, answer, procLast>>

ApiNext ==
    \/ HttpPlay
    \/ HttpPause
    \/ HttpResume
    \/ HttpStop
    \/ HttpSeek
    \/ HttpSetVolume
    \/ HttpGetStatus
    \/ \E i \in 1..MaxRequests : Send(i)
    \/ \E i \in 1..MaxRequests : Receive(i)
    \/ \E i \in 1..MaxRequests : Cancel(i)
    \/ ThreadInitOk
    \/ ThreadInitFails
    \/ ActorStep
    \/ Shutdown
    \/ ThreadExit

ApiSpec == ApiInit /\ [][ApiNext]_vars

(***************************************************************************)
(* Scheduling: the audio thread runs (its initialisation ends one way or   *)
(* the other and the loop handles what is queued), and a handler that can  *)
(* proceed does.  Whether requests arrive is up to the clients.            *)
(***************************************************************************)
ApiFairness ==
    /\ WF_vars(ThreadInitOk \/ ThreadInitFails)
    /\ WF_vars(ActorStep)
    /\ \A i \in 1..MaxRequests : WF_vars(Send(i)) /\ WF_vars(Receive(i))

FairApiSpec == ApiSpec /\ ApiFairness


(***************************************************************************)
(* Clients of a server whose audio thread is in its receive loop.  One     *)
(* caller issues two requests, the second once it has the response to the  *)
(* first (requests 1 and 2); every other request comes from a caller of    *)
(* its own, at any time.  The clock stands still meanwhile.                *)
(***************************************************************************)
CallerSlots == 1..(MaxRequests + 1)

Call(kind, cmd) == [kind |-> kind, cmd |-> cmd]

FirstCommands ==
    {Call("play", PlayCmd("a", lookup("a"), TRUE, TRUE)),
     Call("pause", PauseCmd),
     Call("resume", ResumeCmd),
     Call("stop", StopCmd),
     Call("volume", SetVolumeCmd(0 - 1))}

SecondCommands ==
    {Call("play", PlayCmd("a", lookup("a"), TRUE, TRUE)),
     Call("status", GetStatusCmd)}

OtherCommands ==
    {Call("play", PlayCmd("b", lookup("b"), TRUE, TRUE)),
     Call("pause", PauseCmd),
     Call("resume", ResumeCmd),
     Call("stop", StopCmd),
     Call("volume", SetVolumeCmd(VolUnit + 1)),
     Call("status", GetStatusCmd)}

CallersInit ==
    /\ ActorInit
    /\ NoScan
    /\ thread = "running"
    /\ open = TRUE
    /\ chan = <<>>
    /\ reqs = [i \in CallerSlots |-> IdleRequest]
    /\ arrived = 0
    /\ naccepted = 0
    /\ nproc = 0
    /\ answer = NoAnswer
    /\ procLast = NoProcessed
    /\ log = <<>>

FirstCallerFirst ==
    /\ reqs[1].pc = "idle"
    /\ \E c \in FirstCommands : Accept(1, c.kind, c.cmd)

FirstCallerSecond ==
    /\ reqs[1].pc = "done"
    /\ reqs[2].pc = "idle"
    /\ \E c \in SecondCommands : Accept(2, c.kind, c.cmd)

OtherCaller ==
    \E i \in CallerSlots \ {1, 2}, c \in OtherCommands :
        /\ reqs[i].pc = "idle"
        /\ \A j \in CallerSlots \ {1, 2} : j < i => reqs[j].pc # "idle"
        /\ Accept(i, c.kind, c.cmd)

CallersNext ==
    \/ FirstCallerFirst
    \/ FirstCallerSecond
    \/ OtherCaller
    \/ \E i \in CallerSlots : Send(i)
    \/ \E i \in CallerSlots : Receive(i)
    \/ LoggedActorStep

CallersSpec == CallersInit /\ [][CallersNext]_vars

(***************************************************************************)
(* The actor state after the commands of a log, handled in its order from  *)
(* the state AudioThreadState::new returns.                                *)
(***************************************************************************)
RECURSIVE Replay(_)
Replay(l) ==
    IF l = <<>>
    THEN New
    ELSE handle_command(Replay(SubSeq(l, 1, Len(l) - 1)), l[Len(l)].cmd, now).state

(***************************************************************************)
(* The library scan at startup (scan_library).  A scanned file is          *)
(* <music root>/<artist>/<album>/<title>.<ext>; artist, album and title    *)
(* are kept as their ranks in the order of String::cmp.                    *)
(***************************************************************************)
Artists == {1, 2}
Albums == {1, 2}
Titles == {1, 2}
Exts == {"flac", "mp3"}

ScannedTrack(artist, album, title, ext) ==
    [path |-> <<artist, album, title, ext>>,
     title |-> title, artist |-> artist, album |-> album]

Files ==
    {ScannedTrack(ar, al, ti, ex) :
        ar \in Artists, al \in Albums, ti \in Titles, ex \in Exts}

(***************************************************************************)
(* What the directory walk pushes onto tracks: every supported file once,  *)
(* in the order the file system lists them.                                *)
(***************************************************************************)
Walks ==
    {w \in UNION {[1..n -> Files] : n \in 0..MaxTracks} :
        \A i, j \in DOMAIN w : i # j => w[i] # w[j]}

(***************************************************************************)
(* Ord::cmp on ranks and Ordering::then: -1 is Less, 0 Equal, 1 Greater.   *)
(***************************************************************************)
cmp(x, y) == IF x < y THEN 0 - 1 ELSE IF x > y THEN 1 ELSE 0
then(first, second) == IF first # 0 THEN first ELSE second

(***************************************************************************)
(* A comparison that leaves the album out.                                 *)
(***************************************************************************)
compare_skips_album(a, b) ==
    then(cmp(a.artist, b.artist), cmp(a.title, b.title))

(***************************************************************************)
(* The closure scan_library passes to sort_by.                             *)
(***************************************************************************)
compare(a, b) ==
    then(then(cmp(a.artist, b.artist), cmp(a.album, b.album)),
         cmp(a.title, b.title))

(***************************************************************************)
(* slice::sort_by: a stable sort.  Each element is placed after the ones   *)
(* already placed that do not compare Greater than it.                     *)
(***************************************************************************)
RECURSIVE InsertSorted(_, _)
InsertSorted(x, sorted) ==
    IF sorted = <<>> THEN <<x>>
    ELSE IF compare(Head(sorted), x) = 1
         THEN <<x>> \o sorted
         ELSE <<Head(sorted)>> \o InsertSorted(x, Tail(sorted))

RECURSIVE sort_by(_)
sort_by(tracks) ==
    IF tracks = <<>> THEN <<>>
    ELSE InsertSorted(tracks[Len(tracks)],
                      sort_by(SubSeq(tracks, 1, Len(tracks) - 1)))

scan_library(found) == [tracks |-> sort_by(found)]

ScanInit ==
    /\ ActorInit
    /\ ApiStart("init")
    /\ walk \in Walks
    /\ scanned = None
    /\ NoClient

ScanLibrary ==
    /\ scanned = None
    /\ scanned' = Some(scan_library(walk))
    /\ UNCHANGED <<state, now, histVars, apiVars, walk, fs, outcome, app, key>>

ScanNext == ScanLibrary

ScanSpec == ScanInit /\ [][ScanNext]_vars

(***************************************************************************)
(* The terminal client (digitalis-client) in front of a server whose       *)
(* library was scanned at startup.  Artists, albums and titles are the     *)
(* ranks of their names, as in the scan; the client's indices count from 0 *)
(* and the sequences here from 1.                                          *)
(***************************************************************************)

(***************************************************************************)
(* Vec::sort of a HashSet's elements: the elements of a set in ascending   *)
(* order.                                                                  *)
(***************************************************************************)
RECURSIVE sorted(_)
sorted(set) ==
    IF set = {} THEN <<>>
    ELSE LET least == CHOOSE x \in set : \A y \in set : x <= y
         IN  <<least>> \o sorted(set \ {least})

get_artists(library) ==
    sorted({library.tracks[k].artist : k \in DOMAIN library.tracks})

get_albums(library, artist) ==
    sorted({library.tracks[k].album :
               k \in {j \in DOMAIN library.tracks : library.tracks[j].artist = artist}})

(***************************************************************************)
(* get_tracks: the tracks of the album in library order, then a stable     *)
(* sort by title; with artist and album equal, compare orders by title.    *)
(***************************************************************************)
get_tracks(library, artist, album) ==
    LET wanted(t) == t.artist = artist /\ t.album = album
    IN  sort_by(SelectSeq(library.tracks, wanted))

(***************************************************************************)
(* The fetches.  ok, okAlbums, okTracks: whether the request of that fetch *)
(* succeeds; a failed request returns through ? before the assignment.     *)
(***************************************************************************)
fetch_tracks(a, library, okTracks) ==
    IF a.selected_artist >= Len(a.artists) \/ a.selected_album >= Len(a.albums)
    THEN a
    ELSE IF ~okTracks THEN a
    ELSE [a EXCEPT !.tracks = get_tracks(library,
                                         a.artists[a.selected_artist + 1],
                                         a.albums[a.selected_album + 1])]

fetch_albums(a, library, okAlbums, okTracks) ==
    IF a.selected_artist >= Len(a.artists) THEN a
    ELSE IF ~okAlbums THEN a
    ELSE LET b == [a EXCEPT !.albums = get_albums(library,
                                                  a.artists[a.selected_artist + 1])]
         IN  IF b.albums # <<>> THEN fetch_tracks(b, library, okTracks) ELSE b

fetch_artists(a, library, okArtists, okAlbums, okTracks) ==
    IF ~okArtists THEN a
    ELSE LET b == [a EXCEPT !.artists = get_artists(library)]
         IN  IF b.artists # <<>>
             THEN fetch_albums(b, library, okAlbums, okTracks)
             ELSE b

fetch_library(a, library, okLibrary, okArtists, okAlbums, okTracks) ==
    IF ~okLibrary THEN a
    ELSE fetch_artists(a, library, okArtists, okAlbums, okTracks)

next_panel(a) ==
    [a EXCEPT !.active_panel =
        CASE @ = "Artists" -> "Albums"
          [] @ = "Albums" -> "Tracks"
          [] @ = "Tracks" -> "Tracks"]

prev_panel(a) ==
    [a EXCEPT !.active_panel =
        CASE @ = "Artists" -> "Artists"
          [] @ = "Albums" -> "Artists"
          [] @ = "Tracks" -> "Albums"]

(***************************************************************************)
(* A next_item that stops at the last item.                                *)
(***************************************************************************)
next_item_stops_at_end(a) ==
    CASE a.active_panel = "Artists" ->
            IF a.artists # <<>> /\ a.selected_artist + 1 < Len(a.artists)
            THEN [a EXCEPT !.selected_artist = @ + 1] ELSE a
      [] a.active_panel = "Albums" ->
            IF a.albums # <<>> /\ a.selected_album + 1 < Len(a.albums)
            THEN [a EXCEPT !.selected_album = @ + 1] ELSE a
      [] a.active_panel = "Tracks" ->
            IF a.tracks # <<>> /\ a.selected_track + 1 < Len(a.tracks)
            THEN [a EXCEPT !.selected_track = @ + 1] ELSE a

next_item(a) ==
    CASE a.active_panel = "Artists" ->
            IF a.artists # <<>>
            THEN [a EXCEPT !.selected_artist = (@ + 1) % Len(a.artists)] ELSE a
      [] a.active_panel = "Albums" ->
            IF a.albums # <<>>
            THEN [a EXCEPT !.selected_album = (@ + 1) % Len(a.albums)] ELSE a
      [] a.active_panel = "Tracks" ->
            IF a.tracks # <<>>
            THEN [a EXCEPT !.selected_track = (@ + 1) % Len(a.tracks)] ELSE a

(***************************************************************************)
(* usize::saturating_sub(1).                                               *)
(***************************************************************************)
saturating_sub(x, y) == IF x >= y THEN x - y ELSE 0

prev_item(a) ==
    CASE a.active_panel = "Artists" ->
            IF a.artists # <<>>
            THEN [a EXCEPT !.selected_artist = saturating_sub(@, 1)] ELSE a
      [] a.active_panel = "Albums" ->
            IF a.albums # <<>>
            THEN [a EXCEPT !.selected_album = saturating_sub(@, 1)] ELSE a
      [] a.active_panel = "Tracks" ->
            IF a.tracks # <<>>
            THEN [a EXCEPT !.selected_track = saturating_sub(@, 1)] ELSE a

(***************************************************************************)
(* The libraries the client is run against: one walk for each set of at    *)
(* most MaxTracks files, the ones that list the files in catalog order.    *)
(***************************************************************************)
ClientWalks ==
    {w \in Walks : /\ \A k \in DOMAIN w : w[k].path[4] = "flac"
                   /\ sort_by(w) = w}

ClientInit ==
    /\ ActorInit
    /\ ApiStart("running")
    /\ walk \in ClientWalks
    /\ scanned = Some(scan_library(walk))
    /\ fs = {}
    /\ outcome = NoOutcome
    /\ app = NewApp
    /\ key = "none"

ClientStep(k, a) ==
    /\ key' = k
    /\ app' = a
    /\ UNCHANGED <<state, now, histVars, apiVars, walk, scanned, fs, outcome>>

(***************************************************************************)
(* run_app before its loop: the initial load, whose error is only shown.   *)
(***************************************************************************)
InitialLoad ==
    /\ app.loading
    /\ \E okLibrary, okArtists, okAlbums, okTracks \in BOOLEAN :
         ClientStep("none",
             [fetch_library(app, Unwrap(scanned), okLibrary, okArtists,
                            okAlbums, okTracks)
                 EXCEPT !.loading = FALSE])

(***************************************************************************)
(* run_app's loop, one key press at a time.                                *)
(***************************************************************************)
KeyRight == ~app.loading /\ ClientStep("Right", next_panel(app))
KeyLeft == ~app.loading /\ ClientStep("Left", prev_panel(app))
KeyDown == ~app.loading /\ ClientStep("Down", next_item(app))
KeyUp == ~app.loading /\ ClientStep("Up", prev_item(app))

KeyEnter ==
    /\ ~app.loading
    /\ \E okAlbums, okTracks \in BOOLEAN :
         ClientStep("Enter",
             CASE app.active_panel = "Artists" ->
                     fetch_albums(app, Unwrap(scanned), okAlbums, okTracks)
               [] app.active_panel = "Albums" ->
                     fetch_tracks(app, Unwrap(scanned), okTracks)
               [] app.active_panel = "Tracks" -> app)

ClientNext ==
    \/ InitialLoad
    \/ KeyRight
    \/ KeyLeft
    \/ KeyDown
    \/ KeyUp
    \/ KeyEnter

ClientSpec == ClientInit /\ [][ClientNext]_vars

(***************************************************************************)
(* Paths.  A file or directory name is a sequence of pieces of text, a     *)
(* path string a sequence of such pieces and separators: "/" is the slash, *)
(* "\\" the backslash (an ordinary character of a name on Unix), ".." two  *)
(* dots; a location is the sequence of names from the file system root     *)
(* down to a file or directory, with every link resolved.  The music root  *)
(* is the directory r of the file system root.                             *)
(***************************************************************************)
R == <<"r">>
D == <<"d">>
F == <<"f">>
G == <<"g">>
O == <<"o">>
B == <<"g", "\\", "f">>
DotB == <<"..", "\\", "f">>

music_root == <<R>>

(***************************************************************************)
(* The names in the order of str::cmp, and the rank of a name in it.       *)
(***************************************************************************)
NameOrder == <<DotB, D, F, G, B>>
NameRank(name) == CHOOSE k \in DOMAIN NameOrder : NameOrder[k] = name

(***************************************************************************)
(* Path::to_str of a relative path: its names joined by the separator.     *)
(***************************************************************************)
RECURSIVE to_str(_)
to_str(names) ==
    IF names = <<>> THEN <<>>
    ELSE IF Len(names) = 1 THEN names[1]
    ELSE names[1] \o <<"/">> \o to_str(Tail(names))

RECURSIVE trim_start_matches(_)
trim_start_matches(str) ==
    IF str # <<>> /\ str[1] \in {"/", "\\"}
    THEN trim_start_matches(Tail(str))
    ELSE str

(***************************************************************************)
(* str::replace('\\', "/").                                                *)
(***************************************************************************)
replace(str) == [k \in DOMAIN str |-> IF str[k] = "\\" THEN "/" ELSE str[k]]

(***************************************************************************)
(* Path::starts_with and Path::strip_prefix, by whole components.          *)
(***************************************************************************)
starts_with(location, base) ==
    /\ Len(location) >= Len(base)
    /\ SubSeq(location, 1, Len(base)) = base

strip_prefix(location, base) ==
    IF starts_with(location, base)
    THEN Some(SubSeq(location, Len(base) + 1, Len(location)))
    ELSE None

(***************************************************************************)
(* Track::from_path of a file the walk yields, given by its canonical      *)
(* location.  title, artist and album are ranks, as in the scan: the file  *)
(* name and the first two components below the root.                       *)
(***************************************************************************)
from_path(full_path, root) ==
    LET relative_path == strip_prefix(full_path, root)
    IN  IF ~IsSome(relative_path) THEN None
        ELSE LET components == Unwrap(relative_path)
                 path_str == replace(trim_start_matches(to_str(components)))
             IN  IF Len(components) < 3 THEN None
                 ELSE Some([path |-> path_str,
                            title |-> NameRank(components[Len(components)]),
                            artist |-> NameRank(components[1]),
                            album |-> NameRank(components[2])])

(***************************************************************************)
(* The loop of scan_library over the files of the walk, then its sort.     *)
(***************************************************************************)
RECURSIVE found_tracks(_)
found_tracks(files) ==
    IF files = <<>> THEN <<>>
    ELSE LET track == from_path(Head(files), music_root)
         IN  (IF IsSome(track) THEN <<Unwrap(track)>> ELSE <<>>)
                 \o found_tracks(Tail(files))

(***************************************************************************)
(* PathBuf::from(&request.path): the components of a path string, and      *)
(* whether it is absolute.  The separator is the slash alone.              *)
(***************************************************************************)
RECURSIVE components_of(_, _)
components_of(str, name) ==
    IF str = <<>> THEN (IF name = <<>> THEN <<>> ELSE <<name>>)
    ELSE IF str[1] = "/"
         THEN (IF name = <<>> THEN <<>> ELSE <<name>>) \o components_of(Tail(str), <<>>)
         ELSE components_of(Tail(str), Append(name, str[1]))

is_absolute(str) == str # <<>> /\ str[1] = "/"

(***************************************************************************)
(* The directories and files that exist, given the files.                  *)
(***************************************************************************)
is_dir(location, files) ==
    \/ location = <<>>
    \/ location = music_root
    \/ \E f \in files :
          Len(f) > Len(location) /\ SubSeq(f, 1, Len(location)) = location

is_file(location, files) == location \in files

(***************************************************************************)
(* fs::canonicalize of base.join(components): every component must exist;  *)
(* ".." goes to the parent, and the parent of the file system root is the  *)
(* root itself.                                                            *)
(***************************************************************************)
RECURSIVE canonicalize(_, _, _)
canonicalize(location, components, files) ==
    IF components = <<>> THEN Some(location)
    ELSE IF ~is_dir(location, files) THEN None
    ELSE LET next == IF Head(components) = <<"..">>
                     THEN (IF location = <<>> THEN <<>>
                           ELSE SubSeq(location, 1, Len(location) - 1))
                     ELSE Append(location, Head(components))
         IN  IF is_dir(next, files) \/ is_file(next, files)
             THEN canonicalize(next, Tail(components), files)
             ELSE None

(***************************************************************************)
(* tracks.iter().find(|t| t.path == request.path).cloned().                *)
(***************************************************************************)
find(tracks, request_path) ==
    IF \E k \in DOMAIN tracks : tracks[k].path = request_path
    THEN Some(tracks[CHOOSE k \in DOMAIN tracks :
                        /\ tracks[k].path = request_path
                        /\ \A j \in 1..(k - 1) : tracks[j].path # request_path])
    ELSE None

(***************************************************************************)
(* A play handler without the containment check.                           *)
(***************************************************************************)
play_request_unchecked(request_path, files, library) ==
    LET canonical == canonicalize(
                         IF is_absolute(request_path) THEN <<>> ELSE music_root,
                         components_of(request_path, <<>>), files)
        canon == IF ~IsSome(canonical) THEN "err" ELSE "inside"
    IN  [canon |-> canon,
         file |-> canonical,
         cmd |-> IF canon = "inside"
                 THEN Some(PlayCmd(Unwrap(canonical),
                                   find(library.tracks, request_path), TRUE, TRUE))
                 ELSE None]

(***************************************************************************)
(* The play handler up to its send: the outcome of the checks and the      *)
(* command it builds.                                                      *)
(***************************************************************************)
play_request(request_path, files, library) ==
    LET canonical == canonicalize(
                         IF is_absolute(request_path) THEN <<>> ELSE music_root,
                         components_of(request_path, <<>>), files)
        canon == IF ~IsSome(canonical) THEN "err"
                 ELSE IF ~starts_with(Unwrap(canonical), music_root) THEN "outside"
                 ELSE "inside"
    IN  [canon |-> canon,
         file |-> canonical,
         cmd |-> IF canon = "inside"
                 THEN Some(PlayCmd(Unwrap(canonical),
                                   find(library.tracks, request_path), TRUE, TRUE))
                 ELSE None]

(***************************************************************************)
(* The files there may be: three levels below the root and deeper, closer  *)
(* to the root, and outside it (reached by the walk through a link).  The  *)
(* walk lists every file once; the catalog is sorted afterwards.           *)
(***************************************************************************)
CandidateFiles ==
    {<<R, D, D, F>>, <<R, D, D, B>>, <<R, D, D, DotB>>, <<R, D, D, G, F>>,
     <<R, D, F>>, <<R, F>>, <<O>>}

(***************************************************************************)
(* The request paths tried: the relative path of every file as from_path   *)
(* writes it and as it is spelled on disk, a path that climbs out of the   *)
(* root, an absolute path and the path of no file.                         *)
(***************************************************************************)
RequestPaths ==
    {replace(to_str(Unwrap(strip_prefix(f, music_root)))) :
        f \in {c \in CandidateFiles : starts_with(c, music_root)}}
    \cup {to_str(<<D, D, B>>), to_str(<<<<"..">>, O>>), <<"/">> \o O,
          to_str(<<D, D, O>>)}

PathInit ==
    /\ ActorInit
    /\ ApiStart("running")
    /\ fs \in {files \in SUBSET CandidateFiles : Cardinality(files) <= MaxFiles}
    /\ walk = CHOOSE w \in [1..Cardinality(fs) -> fs] :
                    \A j, k \in DOMAIN w : j # k => w[j] # w[k]
    /\ scanned = None
    /\ outcome = NoOutcome
    /\ app = NewApp
    /\ key = "none"

(***************************************************************************)
(* main: the library is scanned before the server takes requests.          *)
(***************************************************************************)
ScanFiles ==
    /\ scanned = None
    /\ scanned' = Some(scan_library(found_tracks(walk)))
    /\ UNCHANGED <<state, now, histVars, apiVars, walk, fs, outcome, app, key>>

(***************************************************************************)
(* One of the files is removed after the scan; the catalog is not          *)
(* rescanned.                                                              *)
(***************************************************************************)
RemoveFile ==
    /\ IsSome(scanned)
    /\ Cardinality(fs) = Len(walk)
    /\ \E f \in fs : fs' = fs \ {f}
    /\ outcome' = NoOutcome
    /\ UNCHANGED <<state, now, histVars, apiVars, walk, scanned, app, key>>

(***************************************************************************)
(* POST /api/play with the audio thread in its loop: the whole handler,    *)
(* its send included.                                                      *)
(***************************************************************************)
PostPlay ==
    /\ IsSome(scanned)
    /\ thread = "running"
    /\ arrived < MaxRequests
    /\ Len(chan) < QueueCap
    /\ \E request_path \in RequestPaths :
         LET p == play_request(request_path, fs, Unwrap(scanned))
             code == play(p.canon, TRUE)
         IN  /\ outcome' = [kind |-> "play", request |-> request_path,
                            canon |-> p.canon, code |-> code, cmd |-> p.cmd,
                            file |-> p.file]
             /\ chan' = IF IsSome(p.cmd)
                        THEN Enqueue(chan, [cmd |-> Unwrap(p.cmd), req |-> arrived + 1,
                                            ticket |-> naccepted + 1, answered |-> code])
                        ELSE chan
             /\ naccepted' = IF IsSome(p.cmd) THEN naccepted + 1 ELSE naccepted
             /\ answer' = Answer("play", code, IsSome(p.cmd), None)
    /\ arrived' = arrived + 1
    /\ reqs' = [reqs EXCEPT ![arrived + 1] = DoneRequest]
    /\ UNCHANGED <<state, now, histVars, thread, open, nproc, procLast, log,
                   walk, scanned, fs, app, key>>

PathNext ==
    \/ ScanFiles
    \/ RemoveFile
    \/ PostPlay
    \/ ActorStep

PathSpec == PathInit /\ [][PathNext]_vars



(***************************************************************************)
(* C1: for every Pause and the Resume that follows it with no Play or Stop *)
(* in between, position_ms immediately after the Resume equals position_ms *)
(* immediately before the Pause, however long the pause lasted.            *)
(***************************************************************************)
C1_PauseResumeKeepsPosition ==
    last.cmd = "Resume" =>
        \A m \in last.marks : position(state, now) = m.pos

C1_Witness ==
    /\ last.cmd = "Resume"
    /\ \E m \in last.marks : m.pos > 0 /\ m.waited

(***************************************************************************)
(* C2: after a Stop, in whatever state it was processed, current_track is  *)
(* empty, start_time is empty, pause_offset is 0 and position_ms is 0.     *)
(***************************************************************************)
C2_StopResets ==
    last.cmd = "Stop" =>
        /\ state.current_track = None
        /\ state.start_time = None
        /\ state.pause_offset = 0
        /\ position(state, now) = 0

C2_Witness ==
    /\ last.cmd = "Stop"
    /\ last.before.playing
    /\ IsSome(last.before.track)
    /\ last.before.position_ms > 0

(***************************************************************************)
(* C3: a Play whose file cannot be opened or decoded leaves every field of *)
(* the actor state unchanged, and a GetStatus after it reports the playing *)
(* flag and the track a GetStatus before it would have reported.           *)
(***************************************************************************)
C3_FailedPlayChangesNothing ==
    (last.cmd = "Play" /\ ~last.ok) =>
        /\ last.unchanged
        /\ GetStatus(state, now).playing = last.before.playing
        /\ GetStatus(state, now).track = last.before.track

C3_Witness ==
    /\ last.cmd = "Play"
    /\ ~last.ok
    /\ last.opens
    /\ IsSome(state.current_track)
    /\ Unwrap(state.current_track).path # Unwrap(last.path)
    /\ Unwrap(state.sink).queue # <<>>
    /\ state.pause_offset > 0

(***************************************************************************)
(* C4: whenever current_track is absent because nothing is loaded (at      *)
(* startup before any Play, and after any Stop), GetStatus replies with    *)
(* playing = false and track = None.                                       *)
(***************************************************************************)
C4_IdleStatusNotPlaying ==
    (last.cmd = "GetStatus" /\ last.idle) =>
        /\ IsSome(last.status)
        /\ Unwrap(last.status).playing = FALSE
        /\ Unwrap(last.status).track = None

(***************************************************************************)
(* C5: between a successful Play and the next successful Play or Stop, the *)
(* position_ms values of successive GetStatus replies never decrease.      *)
(***************************************************************************)
C5_PositionMonotonic ==
    (last.cmd = "GetStatus" /\ IsSome(last.floor)) =>
        Unwrap(last.status).position_ms >= Unwrap(last.floor)

(***************************************************************************)
(* C6: in every reachable state start_time is set exactly when the sink is *)
(* un-paused, that is when GetStatus reports playing = true; in a paused   *)
(* state start_time is empty.                                              *)
(***************************************************************************)
C6_StartTimeIffPlaying ==
    /\ IsSome(state.start_time) <=> is_playing(state)
    /\ IsSome(state.start_time) <=> GetStatus(state, now).playing

(***************************************************************************)
(* C7: in every reachable state and in every GetStatus reply the volume    *)
(* lies in [0.0, 1.0], whatever SetVolume was called with.                 *)
(***************************************************************************)
C7_VolumeInRange ==
    /\ state.volume >= 0
    /\ state.volume <= VolUnit
    /\ IsSome(reply) =>
         /\ Unwrap(reply).volume >= 0
         /\ Unwrap(reply).volume <= VolUnit

C7_Witness ==
    /\ last.cmd = "SetVolume"
    /\ last.arg > VolUnit
    /\ last.before.volume < VolUnit

(***************************************************************************)
(* C8: the stored volume, the volume applied to the sink and the volume    *)
(* GetStatus reports equal the argument of the SetVolume processed last,   *)
(* limited to [0.0, 1.0], or 1.0 when there was none; SetVolume changes    *)
(* nothing but the volume.                                                 *)
(***************************************************************************)
C8_VolumeIsLastSetVolume ==
    LET v == Unwrap(lastVol)
        expected ==
            IF IsSome(lastVol)
            THEN IF v < 0 THEN 0 ELSE IF v > VolUnit THEN VolUnit ELSE v
            ELSE VolUnit
    IN  /\ state.volume = expected
        /\ IsSome(state.sink)
        /\ Unwrap(state.sink).volume = expected
        /\ IsSome(reply) => Unwrap(reply).volume = expected
        /\ last.cmd = "SetVolume" => last.sameButVolume

C8_Witness ==
    /\ last.cmd = "GetStatus"
    /\ lastVol = Some(0 - 1)
    /\ Unwrap(last.status).volume = 0
    /\ Unwrap(last.status).playing
    /\ IsSome(Unwrap(last.status).track)

(***************************************************************************)
(* C9: GetStatus changes no field of the actor state, and of two GetStatus *)
(* commands processed with no other command between them the replies agree *)
(* on playing, track, duration_ms and volume, the second position_ms being *)
(* at least the first.                                                     *)
(***************************************************************************)
C9_GetStatusPure ==
    last.cmd = "GetStatus" =>
        /\ last.unchanged
        /\ IsSome(last.prevStatus) =>
             LET a == Unwrap(last.prevStatus)
                 b == Unwrap(last.status)
             IN  /\ a.playing = b.playing
                 /\ a.track = b.track
                 /\ a.duration_ms = b.duration_ms
                 /\ a.volume = b.volume
                 /\ b.position_ms >= a.position_ms

C9_Witness ==
    /\ last.cmd = "GetStatus"
    /\ IsSome(last.prevStatus)
    /\ Unwrap(last.status).position_ms > Unwrap(last.prevStatus).position_ms

(***************************************************************************)
(* C10: a Play that opens and decodes, in whatever state it is processed,  *)
(* leaves the sink un-paused and holding the new source only, current_track*)
(* the track of the command, start_time the present instant and            *)
(* pause_offset 0; a GetStatus right after it reports playing = true, that *)
(* track and position_ms 0.                                                *)
(***************************************************************************)
C10_PlayInstallsTrack ==
    (last.cmd = "Play" /\ last.ok) =>
        /\ IsSome(state.sink)
        /\ Unwrap(state.sink).queue = <<Unwrap(last.path)>>
        /\ ~Unwrap(state.sink).paused
        /\ state.current_track = last.track
        /\ state.start_time = Some(now)
        /\ state.pause_offset = 0
        /\ GetStatus(state, now).playing
        /\ GetStatus(state, now).track = last.track
        /\ GetStatus(state, now).position_ms = 0

C10_Witness ==
    /\ last.cmd = "Play"
    /\ last.ok
    /\ ~last.before.playing
    /\ last.before.position_ms > 0
    /\ IsSome(last.before.track)
    /\ Unwrap(last.before.track).path # Unwrap(last.path)

(***************************************************************************)
(* C11: a Pause processed while start_time is empty (idle, including the   *)
(* initial state and the state after Stop, or paused) changes no field of  *)
(* the actor state, the sink's paused flag included, so the status is the  *)
(* same before and after it.                                               *)
(***************************************************************************)
C11_PauseNoOpUnlessStarted ==
    (last.cmd = "Pause" /\ ~last.started) =>
        /\ last.unchanged
        /\ GetStatus(state, now) = last.before

(***************************************************************************)
(* C12: from a Pause until the next Resume, successful Play or Stop, every *)
(* GetStatus reports playing = false and the position_ms read immediately  *)
(* before the Pause, however much time has passed.                         *)
(***************************************************************************)
C12_PausedPositionFrozen ==
    (last.cmd = "GetStatus" /\ marks # {}) =>
        /\ ~Unwrap(last.status).playing
        /\ \A m \in marks : Unwrap(last.status).position_ms = m.pos

C12_Witness ==
    /\ last.cmd = "GetStatus"
    /\ IsSome(Unwrap(last.status).track)
    /\ \E m \in marks : m.pos > 0 /\ m.waited

(***************************************************************************)
(* C14: Seek(ms), in whatever state and for whatever ms, changes no field  *)
(* of the actor state; position_ms is the same before and after it.        *)
(***************************************************************************)
C14_SeekChangesNothing ==
    last.cmd = "Seek" =>
        /\ last.unchanged
        /\ position(state, now) = last.before.position_ms

C14_Witness ==
    /\ last.cmd = "Seek"
    /\ last.started
    /\ last.before.position_ms > 0
    /\ last.arg # last.before.position_ms

(***************************************************************************)
(* C13: the play handler answers 200 only for a Play that the actor        *)
(* carries out: a Play whose file does not open or decode when the actor   *)
(* handles it was not answered 200.                                        *)
(***************************************************************************)
C13_AcceptedPlaySucceeds ==
    (procLast.kind = "Play" /\ procLast.answered = OK) => procLast.ok

(***************************************************************************)
(* C15: a seek request is never answered 200: it is answered 501 exactly   *)
(* when its command was enqueued and 500 exactly when the send failed.     *)
(***************************************************************************)
C15_SeekNeverOk ==
    answer.kind = "seek" =>
        /\ answer.code # OK
        /\ answer.code = NOT_IMPLEMENTED <=> answer.sent
        /\ answer.code = INTERNAL_SERVER_ERROR <=> ~answer.sent

C15_Witness ==
    /\ answer.kind = "seek"
    /\ answer.sent
    /\ procLast.kind = "Seek"

(***************************************************************************)
(* C16: the actor handles the commands one at a time in exactly the order  *)
(* in which the channel accepted them: the n-th command handled is the     *)
(* n-th command enqueued, and what is queued is what follows, in order.    *)
(***************************************************************************)
C16_FifoOrder ==
    /\ procLast.kind # "none" => procLast.ticket = procLast.nth
    /\ \A k \in 1..Len(chan) : chan[k].ticket = nproc + k

C16_Witness ==
    /\ procLast.kind = "Stop"
    /\ procLast.nth = 1
    /\ Len(chan) = 1
    /\ chan[1].cmd.kind = "Play"

(***************************************************************************)
(* C17: no command is lost: every command the channel accepted is queued   *)
(* or has been handled, and the channel never holds more than 32.          *)
(***************************************************************************)
C17_NoCommandLost ==
    /\ naccepted = nproc + Len(chan)
    /\ Len(chan) <= QueueCap

(***************************************************************************)
(* C18: a status request is always answered: with the actor's snapshot     *)
(* when the actor replied, with the default status when the send failed or *)
(* the reply sender was dropped; and a status request in flight ends.      *)
(***************************************************************************)
C18_StatusAlwaysAnswered ==
    /\ [](answer.kind = "status" =>
            answer.body =
                Some(IF answer.sent /\ IsSome(answer.recv)
                     THEN Unwrap(answer.recv)
                     ELSE DefaultStatus))
    /\ \A i \in 1..MaxRequests :
         (reqs[i].kind = "status" /\ reqs[i].pc \in {"sending", "awaiting"})
             ~> (reqs[i].pc \in {"done", "cancelled"})

C18_Witness ==
    /\ answer.kind = "status"
    /\ answer.sent
    /\ answer.recv = None
    /\ thread = "failed"

(***************************************************************************)
(* C19: a pause, resume, stop, volume or validated play request is         *)
(* answered 200 exactly when its command was enqueued and 500 exactly when *)
(* the send failed, which happens only when the channel is closed.         *)
(***************************************************************************)
C19_AcceptedIffEnqueued ==
    (/\ answer.kind \in {"play", "pause", "resume", "stop", "volume"}
     /\ answer.code \notin {NOT_FOUND, FORBIDDEN}) =>
        /\ answer.code = OK <=> answer.sent
        /\ answer.code = INTERNAL_SERVER_ERROR <=> ~answer.sent
        /\ ~answer.sent => Closed

C19_Witness ==
    /\ answer.kind = "pause"
    /\ answer.code = INTERNAL_SERVER_ERROR
    /\ open

(***************************************************************************)
(* C20: the receive loop ends only when the channel is closed for good     *)
(* (every sender dropped, nothing queued); no command ends it, whatever it *)
(* is and however it fares.                                                *)
(***************************************************************************)
C20_LoopEndsOnlyWhenClosed ==
    [][(thread = "running" /\ thread' # "running") =>
          (~open /\ chan = <<>> /\ thread' = "exited")]_vars

C20_Witness ==
    /\ thread = "running"
    /\ procLast.kind = "GetStatus"
    /\ procLast.replyLost
    /\ procLast.nth = 2

(***************************************************************************)
(* C21: the position_ms of every GetStatus reply is computed from the      *)
(* actor state and the clock reading at that moment: the whole             *)
(* milliseconds of (now - start_time) + pause_offset when start_time is    *)
(* set, and of pause_offset when it is not.                                *)
(***************************************************************************)
C21_PositionFromStateAndClock ==
    last.cmd = "GetStatus" =>
        Unwrap(last.status).position_ms =
            IF state.start_time # None
            THEN ((now - state.start_time[1]) + state.pause_offset) \div TicksPerMs
            ELSE state.pause_offset \div TicksPerMs

C21_Witness ==
    /\ last.cmd = "GetStatus"
    /\ IsSome(state.start_time)
    /\ state.pause_offset % TicksPerMs # 0
    /\ (now - Unwrap(state.start_time)) % TicksPerMs # 0
    /\ IsSome(last.prevStatus)
    /\ Unwrap(last.prevStatus).position_ms < Unwrap(last.status).position_ms

(***************************************************************************)
(* C28: after a Stop and until the next successful Play, start_time stays  *)
(* empty and position_ms stays 0, whatever other command is processed:     *)
(* stated for the step that follows the Stop.                              *)
(***************************************************************************)
C28_StaysIdleAfterStop ==
    [][(last.cmd = "Stop" /\ ~loaded') =>
          (state'.start_time = None /\ position(state', now') = 0)]_vars

(***************************************************************************)
(* C29: in every reachable state the sink handle is present, and when      *)
(* start_time is set the sink is not paused; no GetStatus reply has        *)
(* playing = false while start_time is set.                                *)
(***************************************************************************)
C29_StartedImpliesUnpaused ==
    /\ IsSome(state.sink)
    /\ IsSome(state.start_time) => ~SinkIsPaused(Unwrap(state.sink))
    /\ (last.cmd = "GetStatus" /\ IsSome(state.start_time)) =>
          Unwrap(last.status).playing

C29_Witness ==
    /\ last.cmd = "Resume"
    /\ ~last.before.playing
    /\ IsSome(last.before.track)
    /\ IsSome(state.start_time)

(***************************************************************************)
(* C30: immediately after a Pause, a second Pause processed at any later   *)
(* time leaves the actor state as it is, and position_ms at that time is   *)
(* what it was after the first; likewise for Stop.                         *)
(***************************************************************************)
C30_PauseStopIdempotent ==
    /\ last.cmd = "Pause" =>
          \A t \in now..MaxTime :
              /\ handle_command(state, PauseCmd, t).state = state
              /\ position(handle_command(state, PauseCmd, t).state, t)
                    = position(state, now)
    /\ last.cmd = "Stop" =>
          \A t \in now..MaxTime :
              /\ handle_command(state, StopCmd, t).state = state
              /\ position(handle_command(state, StopCmd, t).state, t)
                    = position(state, now)

C30_Witness ==
    /\ last.cmd = "Pause"
    /\ last.started
    /\ last.before.position_ms > 0
    /\ now < MaxTime

(***************************************************************************)
(* C24: from a successful Play until the next successful Play or Stop, the *)
(* actor holds the track value that came with that Play command and every  *)
(* GetStatus reports it, whatever the library holds for that path by then. *)
(***************************************************************************)
C24_TrackCapturedByValue ==
    IsSome(played) =>
        /\ state.current_track = Unwrap(played)
        /\ last.cmd = "GetStatus" => Unwrap(last.status).track = Unwrap(played)

C24_Witness ==
    /\ last.cmd = "GetStatus"
    /\ played = Some(Some(Track("b")))
    /\ lookup("b") = None
    /\ \E m \in marks : m.waited

(***************************************************************************)
(* C26: after a successful Play with no later successful Play or Stop,     *)
(* while every Pause came when playing and every Resume when paused,       *)
(* position_ms is the time spent un-paused since that Play, in whole       *)
(* milliseconds, at every instant.                                         *)
(***************************************************************************)
C26_PositionIsUnpausedTime ==
    IsSome(run) => position(state, now) = Unwrap(run).ticks \div TicksPerMs

C26_Witness ==
    /\ last.cmd = "Resume"
    /\ IsSome(run)
    /\ Unwrap(run).ticks > 0
    /\ \E m \in last.marks : m.waited
    /\ state.pause_offset % TicksPerMs # 0

(***************************************************************************)
(* C25: the catalog a scan returns is sorted by (artist, album, title):    *)
(* of every two adjacent tracks the first one's triple is                  *)
(* lexicographically less than or equal to the second's.                   *)
(***************************************************************************)
C25_CatalogSorted ==
    IsSome(scanned) =>
        LET tracks == Unwrap(scanned).tracks
        IN  \A i \in 1..(Len(tracks) - 1) :
                LET a == tracks[i]
                    b == tracks[i + 1]
                IN  \/ a.artist < b.artist
                    \/ a.artist = b.artist /\ a.album < b.album
                    \/ a.artist = b.artist /\ a.album = b.album
                          /\ a.title <= b.title

C25_Witness ==
    /\ IsSome(scanned)
    /\ Len(Unwrap(scanned).tracks) = MaxTracks
    /\ Unwrap(scanned).tracks # walk
    /\ \E i \in 1..(MaxTracks - 1) :
          /\ Unwrap(scanned).tracks[i].artist = Unwrap(scanned).tracks[i + 1].artist
          /\ Unwrap(scanned).tracks[i].album < Unwrap(scanned).tracks[i + 1].album
          /\ Unwrap(scanned).tracks[i].title > Unwrap(scanned).tracks[i + 1].title

(***************************************************************************)
(* C22 as claimed: a handler that answers 200 or 501 has enqueued its      *)
(* command, and one that answers 403 or 404 has enqueued none.             *)
(***************************************************************************)
C22_EveryHandlerEnqueuesOnOk ==
    answer.kind # "none" =>
        /\ answer.code \in {OK, NOT_IMPLEMENTED} => answer.sent
        /\ answer.code \in {FORBIDDEN, NOT_FOUND} => ~answer.sent

(***************************************************************************)
(* C22, amended: only a step of the audio thread changes the playback      *)
(* state; a handler step enqueues at most one command and changes nothing  *)
(* else of the playback; a play, pause, resume, stop, volume or seek       *)
(* handler has enqueued its command exactly when it answers 200 or 501,    *)
(* and none when it answers 403, 404 or 500; a status handler answers 200  *)
(* whether or not its GetStatus was enqueued, and it was not only when the *)
(* channel is closed.                                                      *)
(***************************************************************************)
C22_HandlersOnlyEnqueue ==
    /\ [](answer.kind \notin {"none", "status"} =>
            /\ answer.code \in {OK, NOT_IMPLEMENTED} <=> answer.sent
            /\ answer.code \in {FORBIDDEN, NOT_FOUND, INTERNAL_SERVER_ERROR}
                  <=> ~answer.sent)
    /\ [](answer.kind = "status" =>
            /\ answer.code = OK
            /\ ~answer.sent => Closed)
    /\ [][/\ state' # state => (thread = "running" /\ nproc' = nproc + 1)
          /\ naccepted' \in {naccepted, naccepted + 1}
          /\ naccepted' = naccepted + 1 =>
                (state' = state /\ chan' # chan /\ Len(chan') = Len(chan) + 1)
          /\ (answer' # answer /\ answer'.kind # "status") =>
                (answer'.sent <=> naccepted' = naccepted + 1)]_vars

C22_Witness ==
    /\ thread = "running"
    /\ answer.kind = "play"
    /\ answer.code = OK
    /\ Len(chan) = 2
    /\ chan[2].cmd.kind = "Play"
    /\ chan[1].cmd.kind = "Stop"
    /\ procLast.kind = "none"

(***************************************************************************)
(* C23: the queue keeps one caller's two commands in their order and       *)
(* nothing more: the commands are handled in the order enqueued, whoever   *)
(* sent them, so a command another caller gets enqueued between one        *)
(* caller's Stop and Play is handled between them (C23_Witness).           *)
(***************************************************************************)
C23_OnlyEnqueueOrder ==
    /\ \A k \in 1..Len(log) : log[k].ticket = k
    /\ \A j, k \in 1..Len(log) :
          (log[j].req = 1 /\ log[k].req = 2) => j < k
    /\ \A j, k \in 1..Len(chan) :
          (chan[j].req = 1 /\ chan[k].req = 2) => j < k
    /\ \A k \in 1..Len(chan) : chan[k].req = 1 =>
          \A j \in 1..Len(log) : log[j].req # 2

C23_Witness ==
    /\ Len(log) >= 3
    /\ \E k \in 1..(Len(log) - 2) :
          /\ log[k].req = 1
          /\ log[k].cmd.kind = "Stop"
          /\ log[k + 1].req \notin {1, 2}
          /\ log[k + 1].cmd.kind = "Pause"
          /\ log[k + 2].req = 2
          /\ log[k + 2].cmd.kind = "Play"

(***************************************************************************)
(* C27: the reply to a GetStatus is the status of the one actor state that *)
(* results from exactly the commands enqueued before it, and a caller that *)
(* asks for the status after the response to its command gets a snapshot   *)
(* taken after that command was handled.                                   *)
(***************************************************************************)
C27_SnapshotAfterPrecedingCommands ==
    /\ \A k \in 1..Len(log) :
          log[k].cmd.kind = "GetStatus" =>
              /\ \A j \in 1..Len(log) : j < k <=> log[j].ticket < log[k].ticket
              /\ log[k].reply =
                    Some(GetStatus(Replay(SubSeq(log, 1, k - 1)), now))
    /\ \A k \in 1..Len(log) :
          (log[k].req = 2 /\ log[k].cmd.kind = "GetStatus") =>
              \E j \in 1..(k - 1) : log[j].req = 1
    /\ (answer.kind = "status" /\ IsSome(answer.recv)) =>
          \E k \in 1..Len(log) :
              /\ log[k].cmd.kind = "GetStatus"
              /\ log[k].reply = answer.recv
              /\ answer.body = answer.recv

C27_Witness ==
    /\ answer.kind = "status"
    /\ IsSome(answer.recv)
    /\ Len(log) = 3
    /\ log[1].req = 1
    /\ log[1].cmd.kind = "SetVolume"
    /\ log[2].req = 2
    /\ log[2].cmd.kind = "GetStatus"
    /\ Unwrap(log[2].reply).volume = 0
    /\ log[3].cmd.kind = "SetVolume"
    /\ state.volume = VolUnit
    /\ Unwrap(answer.recv).volume = 0

(***************************************************************************)
(* C27 for the server as started: a status request that arrives after a    *)
(* play, pause, resume, stop or volume request was answered 200 gets the   *)
(* actor's snapshot, taken after the actor handled that command.           *)
(***************************************************************************)
C27_StatusAfterAnsweredCommand ==
    (/\ answer.kind = "status"
     /\ answer.after.kind \in {"play", "pause", "resume", "stop", "volume"}
     /\ answer.after.code = OK) =>
        /\ IsSome(answer.recv)
        /\ answer.body = answer.recv
        /\ nproc >= 2

(***************************************************************************)
(* C32 as claimed: once the audio thread's initialisation has failed,      *)
(* every play, pause, resume, stop, volume and seek request that is        *)
(* answered is answered 500, and every status request the default status.  *)
(***************************************************************************)
C32_AllAnswered500 ==
    [][(/\ thread = "failed"
        /\ \E i \in 1..MaxRequests : reqs[i].pc # "done" /\ reqs'[i].pc = "done") =>
          IF answer'.kind = "status"
          THEN answer'.body = Some(DefaultStatus)
          ELSE answer'.code = INTERNAL_SERVER_ERROR]_vars

(***************************************************************************)
(* C32, amended: once the audio thread's initialisation has failed, the    *)
(* channel stays empty and no request is answered as accepted: a request   *)
(* that reaches its send (pause, resume, stop, volume, seek, and a play    *)
(* whose path passed the checks) is answered 500, a play whose path fails  *)
(* the checks is answered 404 or 403 as before, a status request is        *)
(* answered the default status; nothing is enqueued, the playback state    *)
(* does not change, and every request in flight ends.                      *)
(***************************************************************************)
C32_NoneAcceptedAfterInitFailure ==
    /\ [](thread = "failed" => chan = <<>>)
    /\ [][thread = "failed" =>
           /\ thread' = "failed"
           /\ state' = state
           /\ naccepted' = naccepted
           /\ \A i \in 1..MaxRequests :
                (reqs[i].pc # "done" /\ reqs'[i].pc = "done") =>
                   /\ answer'.kind = "status" =>
                         /\ reqs[i].pc \in {"sending", "awaiting"}
                         /\ answer'.body = Some(DefaultStatus)
                   /\ (answer'.kind # "status" /\ reqs[i].pc = "sending") =>
                         /\ answer'.code = INTERNAL_SERVER_ERROR
                         /\ ~answer'.sent
                   /\ (answer'.kind # "status" /\ reqs[i].pc # "sending") =>
                         /\ answer'.kind = "play"
                         /\ answer'.code \in {NOT_FOUND, FORBIDDEN}
                         /\ ~answer'.sent]_vars
    /\ \A i \in 1..MaxRequests :
         (thread = "failed" /\ reqs[i].pc \in {"sending", "awaiting"})
             ~> (reqs[i].pc \in {"done", "cancelled"})

C32_Witness ==
    /\ thread = "failed"
    /\ answer.kind = "volume"
    /\ answer.code = INTERNAL_SERVER_ERROR
    /\ ~answer.sent
    /\ reqs[1].pc = "done"
    /\ reqs[2].pc = "awaiting"
    /\ reqs[2].slot.st = "dropped"

(***************************************************************************)
(* C34: in the terminal client every selection index is a valid index of   *)
(* its list whenever that list is non-empty, after any key presses and     *)
(* fetches.                                                                *)
(***************************************************************************)
C34_SelectionsInRange ==
    /\ app.artists # <<>> => app.selected_artist < Len(app.artists)
    /\ app.albums # <<>> => app.selected_album < Len(app.albums)
    /\ app.tracks # <<>> => app.selected_track < Len(app.tracks)

(***************************************************************************)
(* C35: the Down key moves the active panel's selection to (index + 1)     *)
(* modulo the length of that panel's list, the Up key to index - 1 or      *)
(* leaves it at 0; on an empty list neither changes it, and neither        *)
(* changes anything else of the App.                                       *)
(***************************************************************************)
C35_NextPrevItem ==
    [][LET length == CASE app.active_panel = "Artists" -> Len(app.artists)
                       [] app.active_panel = "Albums" -> Len(app.albums)
                       [] app.active_panel = "Tracks" -> Len(app.tracks)
           index == CASE app.active_panel = "Artists" -> app.selected_artist
                      [] app.active_panel = "Albums" -> app.selected_album
                      [] app.active_panel = "Tracks" -> app.selected_track
           moved(to) ==
               /\ app'.selected_artist =
                     IF app.active_panel = "Artists" THEN to ELSE app.selected_artist
               /\ app'.selected_album =
                     IF app.active_panel = "Albums" THEN to ELSE app.selected_album
               /\ app'.selected_track =
                     IF app.active_panel = "Tracks" THEN to ELSE app.selected_track
               /\ app'.artists = app.artists
               /\ app'.albums = app.albums
               /\ app'.tracks = app.tracks
               /\ app'.active_panel = app.active_panel
       IN  /\ key' = "Down" =>
                moved(IF length = 0 THEN index ELSE (index + 1) % length)
           /\ key' = "Up" =>
                moved(IF length = 0 \/ index = 0 THEN index ELSE index - 1)]_vars

C35_Witness ==
    /\ key = "Down"
    /\ app.active_panel = "Tracks"
    /\ Len(app.tracks) = 2
    /\ app.selected_track = 0
    /\ app.selected_album = 1

(***************************************************************************)
(* C31: the play handler enqueues a Play only for a request path that,     *)
(* joined to the music root and canonicalized, exists and lies inside the  *)
(* music root; a path that cannot be canonicalized is answered 404, one    *)
(* that resolves outside the root 403, and then nothing is enqueued and    *)
(* the actor state stays as it is.                                         *)
(***************************************************************************)
C31_PlayChecksPath ==
    /\ [](outcome.kind = "play" =>
            LET canonical ==
                    canonicalize(IF is_absolute(outcome.request) THEN <<>>
                                 ELSE music_root,
                                 components_of(outcome.request, <<>>), fs)
            IN  /\ ~IsSome(canonical) =>
                      (outcome.code = NOT_FOUND /\ outcome.cmd = None)
                /\ (IsSome(canonical) /\ ~starts_with(Unwrap(canonical), music_root)) =>
                      (outcome.code = FORBIDDEN /\ outcome.cmd = None)
                /\ IsSome(outcome.cmd) =>
                      /\ IsSome(canonical)
                      /\ starts_with(Unwrap(canonical), music_root)
                      /\ \/ is_file(Unwrap(canonical), fs)
                         \/ is_dir(Unwrap(canonical), fs)
                      /\ Unwrap(outcome.cmd).kind = "Play"
                      /\ Unwrap(outcome.cmd).path = canonical
                      /\ outcome.code = OK)
    /\ [][arrived' # arrived =>
            /\ state' = state
            /\ IF outcome'.code \in {NOT_FOUND, FORBIDDEN}
               THEN chan' = chan /\ naccepted' = naccepted /\ ~answer'.sent
               ELSE /\ Len(chan') = Len(chan) + 1
                    /\ SubSeq(chan', 1, Len(chan)) = chan
                    /\ chan'[Len(chan')].cmd = Unwrap(outcome'.cmd)]_vars

C31_Witness ==
    /\ outcome.kind = "play"
    /\ outcome.request = to_str(<<<<"..">>, O>>)
    /\ outcome.code = FORBIDDEN
    /\ O \in {f[1] : f \in fs}
    /\ nproc = 1
    /\ procLast.kind = "Play"
    /\ chan = <<>>

(***************************************************************************)
(* C33: for every track of the scanned catalog whose file still exists, a  *)
(* play request carrying the track's path is answered 200, resolves to     *)
(* that file and enqueues a Play whose track is that catalog track.        *)
(***************************************************************************)
C33_CatalogPathsRoundTrip ==
    (outcome.kind = "play" /\ IsSome(scanned)) =>
        \A k \in DOMAIN walk :
            LET track == from_path(walk[k], music_root)
            IN  (/\ IsSome(track)
                 /\ walk[k] \in fs
                 /\ outcome.request = Unwrap(track).path) =>
                    /\ outcome.code = OK
                    /\ IsSome(outcome.cmd)
                    /\ Unwrap(outcome.cmd).path = Some(walk[k])
                    /\ Unwrap(outcome.cmd).track = track

(***************************************************************************)
(* C36: from_path returns a Track exactly for a file under the music root  *)
(* with at least three components below it; a file outside the root or     *)
(* with fewer components has no track in the catalog, and a Play for it    *)
(* carries no track.                                                       *)
(***************************************************************************)
C36_ShallowFilesHaveNoTrack ==
    /\ \A k \in DOMAIN walk :
          IsSome(from_path(walk[k], music_root)) <=>
              /\ starts_with(walk[k], music_root)
              /\ Len(walk[k]) - Len(music_root) >= 3
    /\ IsSome(scanned) =>
          LET tracks == Unwrap(scanned).tracks
          IN  /\ \A j \in DOMAIN tracks :
                    \E k \in DOMAIN walk :
                        /\ from_path(walk[k], music_root) = Some(tracks[j])
                        /\ Len(walk[k]) - Len(music_root) >= 3
              /\ \A k \in DOMAIN walk :
                    (/\ starts_with(walk[k], music_root)
                     /\ Len(walk[k]) - Len(music_root) < 3) =>
                        \A j \in DOMAIN tracks :
                            tracks[j].path #
                                to_str(Unwrap(strip_prefix(walk[k], music_root)))
    /\ (outcome.kind = "play" /\ IsSome(outcome.cmd)) =>
          LET file == Unwrap(Unwrap(outcome.cmd).path)
          IN  (is_file(file, fs) /\ Len(file) - Len(music_root) < 3) =>
                  Unwrap(outcome.cmd).track = None

====
